---------------------------- MODULE Spec2Model ----------------------------
(***************************************************************************)
(* Model of the two Remix loaders of the 404-redirect admin application:   *)
(*   app/routes/app.analytics.tsx  loader  (the analytics snapshot)         *)
(*   app/routes/app._index.tsx     loader  (the merged theme list)          *)
(* together with the event store they read (NotFoundError, Redirect and    *)
(* ThemeStatus rows) and the wall clock the analytics loader reads.         *)
(*                                                                         *)
(* Time is counted in ticks since 00:00 on 1 January 1970, with            *)
(* TicksPerDay ticks to the day; the process's local time zone is taken to *)
(* have a fixed offset (no daylight saving), so a local day is always      *)
(* TicksPerDay ticks.                                                      *)
(***************************************************************************)
EXTENDS Integers, Sequences, FiniteSets, TLC

VARIABLES
    clock,          \* the wall clock, what `new Date()` reads
    notFoundErrors, \* rows of the NotFoundError table
    redirects,      \* rows of the Redirect table
    themeStatuses,  \* rows of the ThemeStatus table
    platformThemes, \* what the platform's getThemes query answers for the session's shop
    route,          \* which loader serves the request: "analytics" or "index"
    pc,             \* the loader's position
    shop,           \* session.shop
    rangeParam,     \* url.searchParams.get("range")
    range,          \* the loader's `range`
    now,            \* the loader's `now`
    startDate,      \* the loader's `startDate`
    qstate,         \* state of each of the five promises handed to Promise.all
    issued,         \* how many times each query was sent to the store
    errors,         \* result of the first query
    topPaths,       \* result of the second query
    totalRedirects, \* result of the third query
    unfixedErrors,  \* result of the fourth query
    topReferrers,   \* result of the fifth query
    themeRows,      \* the theme loader's `themeStatuses`
    response,       \* what the loader returned (NoResponse until it returns)
    ticks,          \* clock ticks elapsed since the request arrived
    inserted        \* rows inserted into the store since the request arrived

vars == <<clock, notFoundErrors, redirects, themeStatuses, platformThemes, route,
          pc, shop, rangeParam, range, now, startDate, qstate, issued, errors,
          topPaths, totalRedirects, unfixedErrors, topReferrers, themeRows,
          response, ticks, inserted>>

-----------------------------------------------------------------------------
(* Bounds of the model *)

TicksPerDay == 2
MaxTicks == 1
MaxEvents == 7
MaxRedirects == 1
MaxThemes == 2
MaxInserts == 1
MaxConcurrentStore == 2

NULL == "<null>"
NoResponse == [kind |-> "none"]
\* the value of `now` and `startDate` before they are assigned
NoDate == 0 - 1

-----------------------------------------------------------------------------
(* The calendar behind Date.prototype.getDate/getMonth/setDate/setMonth *)

IsLeapYear(y) == (y % 4 = 0 /\ y % 100 # 0) \/ y % 400 = 0

DaysInYear(y) == IF IsLeapYear(y) THEN 366 ELSE 365

DaysInMonth(y, m) ==
    IF m = 1 THEN (IF IsLeapYear(y) THEN 29 ELSE 28)
    ELSE IF m \in {3, 5, 8, 10} THEN 30 ELSE 31

\* ECMAScript DayFromYear: the number of the day on which year y begins
DayFromYear(y) ==
    365 * (y - 1970) + ((y - 1969) \div 4) - ((y - 1901) \div 100)
        + ((y - 1601) \div 400)

RECURSIVE DaysBeforeMonth(_, _)
DaysBeforeMonth(y, m) ==
    IF m = 0 THEN 0 ELSE DaysBeforeMonth(y, m - 1) + DaysInMonth(y, m - 1)

\* ECMAScript MakeDay: month and date may lie outside their usual ranges
MakeDay(year, month, date) ==
    LET ym == year + (month \div 12)
        mn == month % 12
    IN  DayFromYear(ym) + DaysBeforeMonth(ym, mn) + date - 1

Day(t) == t \div TicksPerDay

TimeWithinDay(t) == t % TicksPerDay

MakeDate(day, time) == day * TicksPerDay + time

RECURSIVE YearFromDay(_, _)
YearFromDay(day, y) ==
    IF day < DayFromYear(y) THEN YearFromDay(day, y - 1)
    ELSE IF day >= DayFromYear(y + 1) THEN YearFromDay(day, y + 1)
    ELSE y

\* ECMAScript YearFromTime: the search starts from a year that is not too late
YearFromTime(t) == YearFromDay(Day(t), 1970 + (Day(t) \div 366))

RECURSIVE MonthFromDayInYear(_, _, _)
MonthFromDayInYear(y, d, m) ==
    IF d < DaysBeforeMonth(y, m + 1) THEN m ELSE MonthFromDayInYear(y, d, m + 1)

\* Date.prototype.getMonth: 0 is January
getMonth(t) ==
    LET y == YearFromTime(t) IN MonthFromDayInYear(y, Day(t) - DayFromYear(y), 0)

\* Date.prototype.getDate: the day of the month, from 1
getDate(t) ==
    LET y == YearFromTime(t)
    IN  Day(t) - DayFromYear(y) - DaysBeforeMonth(y, getMonth(t)) + 1

\* Date.prototype.setDate(date) on the Date holding t
setDate(t, date) ==
    MakeDate(MakeDay(YearFromTime(t), getMonth(t), date), TimeWithinDay(t))

\* Date.prototype.setMonth(month) on the Date holding t
setMonth(t, month) ==
    MakeDate(MakeDay(YearFromTime(t), month, getDate(t)), TimeWithinDay(t))

\* the instant of tick `time` of the given calendar day
Instant(year, month, date, time) == MakeDate(MakeDay(year, month, date), time)


-----------------------------------------------------------------------------
(* The rows of the store and the requests the model explores *)

Shops == {"s1", "s2"}

\* paths and referers, each listed in the store's ascending order of the column
PathOrder == <<"/a", "/b", "/c", "/d", "/e", "/f", "/g">>

RefererOrder == <<"r1", "r2", "r3", "r4">>

\* range=day, range=week, range=month, no range parameter, an unsupported value
RangeParams == {"day", "week", "month", NULL, "quarter"}

Queries == {"errors", "topPaths", "totalRedirects", "unfixedErrors", "topReferrers"}

\* the order of the array handed to Promise.all
QueryOrder == <<"errors", "topPaths", "totalRedirects", "unfixedErrors", "topReferrers">>

ErrorRow(id, s, p, r, ts, red) ==
    [id |-> id, shopDomain |-> s, path |-> p, referer |-> r, timestamp |-> ts,
     redirected |-> red]

RedirectRow(id, s, ts) == [id |-> id, shopDomain |-> s, createdAt |-> ts]

\* NotFoundError rows the store may hold when a request arrives at instant c
ErrorPool(c) ==
    { ErrorRow(1, "s1", "/a", NULL, c - 1, FALSE),
      ErrorRow(2, "s1", "/a", "r1", c - 1, TRUE),
      ErrorRow(3, "s1", "/b", "r2", c - 3 * TicksPerDay, FALSE),
      ErrorRow(4, "s1", "/c", "r3", c - 10 * TicksPerDay, FALSE),
      ErrorRow(5, "s1", "/d", "r4", c - 3 * TicksPerDay, TRUE),
      ErrorRow(6, "s1", "/e", "r2", c + TicksPerDay, FALSE),
      ErrorRow(7, "s1", "/f", "r1", c - 1, FALSE),
      ErrorRow(8, "s1", "/g", "r3", c - 40 * TicksPerDay, FALSE),
      ErrorRow(9, "s2", "/b", "r1", c - 1, FALSE),
      ErrorRow(10, "s1", "/g", "r4", c - 5 * TicksPerDay, FALSE) }

\* Redirect rows the store may hold when a request arrives at instant c
RedirectPool(c) ==
    { RedirectRow(1, "s1", c - 3 * TicksPerDay),
      RedirectRow(2, "s2", c - 1) }

\* the themes the platform may list
ThemeCatalog ==
    { [id |-> "t1", name |-> "Dawn", role |-> "main"],
      [id |-> "t2", name |-> "Craft", role |-> "unpublished"],
      [id |-> "t3", name |-> "Sense", role |-> "unpublished"] }

ThemeIds == {t.id : t \in ThemeCatalog}

\* lists of distinct themes, at most MaxThemes long
ThemeLists ==
    { l \in UNION {[1..n -> ThemeCatalog] : n \in 0..MaxThemes} :
        \A i, j \in DOMAIN l : i # j => l[i].id # l[j].id }

\* ThemeStatus tables: at most one row per (shopDomain, themeId)
ThemeStatusTables ==
    { { [shopDomain |-> k[1], themeId |-> k[2], isActive |-> f[k]] : k \in keys } :
        keys \in SUBSET (Shops \X ThemeIds), f \in [Shops \X ThemeIds -> BOOLEAN] }

\* the instants at which the modelled requests arrive
ClockStarts == { Instant(2024, 2, 15, 0) }

-----------------------------------------------------------------------------
(* Ordering and grouping, as the store does them *)

IndexOf(seq, x) == CHOOSE i \in DOMAIN seq : seq[i] = x

PathRank(p) == IndexOf(PathOrder, p)

\* a NULL referer sorts above every value when nullsLarge, below every value otherwise
RefererRank(r, nullsLarge) ==
    IF r = NULL THEN (IF nullsLarge THEN Len(RefererOrder) + 1 ELSE 0)
    ELSE IndexOf(RefererOrder, r)

RECURSIVE Ascending(_, _)
\* the elements of S in ascending order of rank
Ascending(S, rank) ==
    IF S = {} THEN <<>>
    ELSE LET m == CHOOSE x \in S : \A y \in S : rank[x] <= rank[y]
         IN  <<m>> \o Ascending(S \ {m}, rank)

RECURSIVE Descending(_, _)
\* the elements of S in descending order of rank
Descending(S, rank) ==
    IF S = {} THEN <<>>
    ELSE LET m == CHOOSE x \in S : \A y \in S : rank[x] >= rank[y]
         IN  <<m>> \o Descending(S \ {m}, rank)

\* `take: n`
Take(seq, n) == SubSeq(seq, 1, IF Len(seq) < n THEN Len(seq) ELSE n)

RECURSIVE SumCounts(_)
\* errors.reduce((sum, error) => sum + error._count, 0)
SumCounts(seq) ==
    IF seq = <<>> THEN 0 ELSE Head(seq)._count + SumCounts(Tail(seq))

\* Math.round(a / b) for a >= 0 and b > 0: halves round up
MathRound(a, b) == (2 * a + b) \div (2 * b)


-----------------------------------------------------------------------------
(* The five queries of the analytics loader *)

\* the errors filter without its `lte: now`
ErrorsWhereNoUpperBound(e, s, start, end) == e.shopDomain = s /\ e.timestamp >= start

\* where: { shopDomain, timestamp: { gte: startDate, lte: now } }
ErrorsWhere(e, s, start, end) ==
    e.shopDomain = s /\ e.timestamp >= start /\ e.timestamp <= end

\* where: { shopDomain, timestamp: { gte: startDate } }
TopPathsWhere(e, s, start) == e.shopDomain = s /\ e.timestamp >= start

\* where: { shopDomain, createdAt: { gte: startDate } }
RedirectsWhere(r, s, start) == r.shopDomain = s /\ r.createdAt >= start

\* the unfixed-errors filter without its shopDomain condition
UnfixedWhereAnyShop(e, s, start) == e.redirected = FALSE /\ e.timestamp >= start

\* where: { shopDomain, redirected: false, timestamp: { gte: startDate } }
UnfixedWhere(e, s, start) ==
    e.shopDomain = s /\ e.redirected = FALSE /\ e.timestamp >= start

\* where: { shopDomain, timestamp: { gte: startDate } }
TopReferrersWhere(e, s, start) == e.shopDomain = s /\ e.timestamp >= start

\* notFoundError.groupBy({ by: ['timestamp'], _count: true, orderBy: { timestamp: 'asc' } })
ErrorsQuery(rows, s, start, end) ==
    LET sel  == {e \in rows : ErrorsWhere(e, s, start, end)}
        keys == {e.timestamp : e \in sel}
        ord  == Ascending(keys, [k \in keys |-> k])
    IN  [i \in 1..Len(ord) |->
            [timestamp |-> ord[i],
             _count |-> Cardinality({e \in sel : e.timestamp = ord[i]})]]

\* the top-paths query without its `take`
TopPathsQueryUntruncated(rows, s, start) ==
    LET sel  == {e \in rows : e.shopDomain = s /\ e.timestamp >= start}
        keys == {e.path : e \in sel}
        ord  == Descending(keys, [k \in keys |-> PathRank(k)])
    IN  [i \in 1..Len(ord) |->
            [path |-> ord[i], _count |-> Cardinality({e \in sel : e.path = ord[i]})]]

\* notFoundError.groupBy({ by: ['path'], _count: true, orderBy: [{ path: 'desc' }], take: 5 })
TopPathsQuery(rows, s, start) ==
    LET sel  == {e \in rows : TopPathsWhere(e, s, start)}
        keys == {e.path : e \in sel}
        ord  == Take(Descending(keys, [k \in keys |-> PathRank(k)]), 5)
    IN  [i \in 1..Len(ord) |->
            [path |-> ord[i], _count |-> Cardinality({e \in sel : e.path = ord[i]})]]

\* redirect.count({ where })
RedirectsQuery(rows, s, start) ==
    Cardinality({r \in rows : RedirectsWhere(r, s, start)})

\* notFoundError.count({ where })
UnfixedQuery(rows, s, start) ==
    Cardinality({e \in rows : UnfixedWhere(e, s, start)})

\* notFoundError.groupBy({ by: ['referer'], _count: true, orderBy: [{ referer: 'desc' }], take: 3 })
\* where a NULL referer sorts depends on the database: nullsLarge says which
TopReferrersQuery(rows, s, start, nullsLarge) ==
    LET sel  == {e \in rows : TopReferrersWhere(e, s, start)}
        keys == {e.referer : e \in sel}
        ord  == Take(Descending(keys, [k \in keys |-> RefererRank(k, nullsLarge)]), 3)
    IN  [i \in 1..Len(ord) |->
            [referer |-> ord[i],
             _count |-> Cardinality({e \in sel : e.referer = ord[i]})]]

-----------------------------------------------------------------------------
(* The analytics loader, step by step *)

\* (url.searchParams.get("range") as TimeRange) || "week"
RangeOf(param) == IF param \in {NULL, ""} THEN "week" ELSE param

\* the switch over range: startDate after the setDate / setMonth call
WindowStart(r, n, start) ==
    CASE r = "day"   -> setDate(start, getDate(n) - 1)
      [] r = "month" -> setMonth(start, getMonth(n) - 1)
      [] OTHER       -> setDate(start, getDate(n) - 7)

\* range === 'day' ? 1 : range === 'week' ? 7 : 30
AvgDivisor(r) == IF r = "day" THEN 1 ELSE IF r = "week" THEN 7 ELSE 30

\* a reduce that counts the buckets instead of adding their counts
TotalErrorsCountingBuckets(errs) == Len(errs)

\* errors.reduce((sum, error) => sum + error._count, 0)
TotalErrors(errs) == SumCounts(errs)

\* Math.round(totalErrors / divisor)
AvgDaily(total, r) == MathRound(total, AvgDivisor(r))

\* the object handed to json(...)
Snapshot(errs, paths, r, reds, unfixed, refs) ==
    [kind |-> "analytics",
     errors |-> errs,
     topPaths |-> paths,
     range |-> r,
     additionalMetrics |->
        [totalRedirects |-> reds,
         totalErrors |-> TotalErrors(errs),
         avgDaily |-> AvgDaily(TotalErrors(errs), r),
         unfixedErrors |-> unfixed,
         topReferrers |-> refs]]

storeVars == <<notFoundErrors, redirects, themeStatuses, platformThemes>>
resultVars == <<errors, topPaths, totalRedirects, unfixedErrors, topReferrers>>

ParseRange ==
    /\ route = "analytics" /\ pc = "start"
    /\ range' = RangeOf(rangeParam)
    /\ pc' = "readNow"
    /\ UNCHANGED <<clock, storeVars, route, shop, rangeParam, now, startDate, qstate,
                   issued, resultVars, themeRows, response, ticks, inserted>>

\* const now = new Date()
ReadNow ==
    /\ route = "analytics" /\ pc = "readNow"
    /\ now' = clock
    /\ pc' = "readStart"
    /\ UNCHANGED <<clock, storeVars, route, shop, rangeParam, range, startDate, qstate,
                   issued, resultVars, themeRows, response, ticks, inserted>>

\* the clock advances between the two `new Date()` reads
Tick ==
    /\ route = "analytics" /\ pc = "readStart"
    /\ ticks < MaxTicks
    /\ clock' = clock + 1
    /\ ticks' = ticks + 1
    /\ UNCHANGED <<storeVars, route, pc, shop, rangeParam, range, now, startDate, qstate,
                   issued, resultVars, themeRows, response, inserted>>

\* let startDate = new Date()
ReadStartDate ==
    /\ route = "analytics" /\ pc = "readStart"
    /\ startDate' = clock
    /\ pc' = "switch"
    /\ UNCHANGED <<clock, storeVars, route, shop, rangeParam, range, now, qstate,
                   issued, resultVars, themeRows, response, ticks, inserted>>

\* switch (range) { ... }
ResolveWindow ==
    /\ route = "analytics" /\ pc = "switch"
    /\ startDate' = WindowStart(range, now, startDate)
    /\ pc' = "dispatch"
    /\ UNCHANGED <<clock, storeVars, route, shop, rangeParam, range, now, qstate,
                   issued, resultVars, themeRows, response, ticks, inserted>>

\* the five queries are built and handed to Promise.all, which sends each once
Dispatch ==
    /\ route = "analytics" /\ pc = "dispatch"
    /\ qstate' = [q \in Queries |-> "pending"]
    /\ issued' = [q \in Queries |-> issued[q] + 1]
    /\ pc' = "await"
    /\ UNCHANGED <<clock, storeVars, route, shop, rangeParam, range, now, startDate,
                   resultVars, themeRows, response, ticks, inserted>>

\* the store answers query q from the rows it holds at that moment
Settle(q) ==
    /\ route = "analytics" /\ pc = "await"
    /\ qstate[q] = "pending"
    /\ qstate' = [qstate EXCEPT ![q] = "fulfilled"]
    /\ CASE q = "errors" ->
              /\ errors' = ErrorsQuery(notFoundErrors, shop, startDate, now)
              /\ UNCHANGED <<topPaths, totalRedirects, unfixedErrors, topReferrers>>
         [] q = "topPaths" ->
              /\ topPaths' = TopPathsQuery(notFoundErrors, shop, startDate)
              /\ UNCHANGED <<errors, totalRedirects, unfixedErrors, topReferrers>>
         [] q = "totalRedirects" ->
              /\ totalRedirects' = RedirectsQuery(redirects, shop, startDate)
              /\ UNCHANGED <<errors, topPaths, unfixedErrors, topReferrers>>
         [] q = "unfixedErrors" ->
              /\ unfixedErrors' = UnfixedQuery(notFoundErrors, shop, startDate)
              /\ UNCHANGED <<errors, topPaths, totalRedirects, topReferrers>>
         [] q = "topReferrers" ->
              /\ \E nullsLarge \in BOOLEAN :
                    topReferrers' =
                        TopReferrersQuery(notFoundErrors, shop, startDate, nullsLarge)
              /\ UNCHANGED <<errors, topPaths, totalRedirects, unfixedErrors>>
    /\ UNCHANGED <<clock, storeVars, route, pc, shop, rangeParam, range, now, startDate,
                   issued, themeRows, response, ticks, inserted>>

\* the store fails query q: its promise rejects
SettleFail(q) ==
    /\ route = "analytics" /\ pc = "await"
    /\ qstate[q] = "pending"
    /\ qstate' = [qstate EXCEPT ![q] = "rejected"]
    /\ UNCHANGED <<clock, storeVars, route, pc, shop, rangeParam, range, now, startDate,
                   issued, resultVars, themeRows, response, ticks, inserted>>

\* Promise.allSettled in place of Promise.all: no promise is pending any more
AllSettled == \A q \in Queries : qstate[q] \in {"fulfilled", "rejected"}

\* Promise.all fulfils once every promise has fulfilled
AllFulfilled == \A q \in Queries : qstate[q] = "fulfilled"

\* Promise.all fulfils; totalErrors and avgDaily are computed; json(...) is returned
Compose ==
    /\ route = "analytics" /\ pc = "await"
    /\ AllFulfilled
    /\ response' = Snapshot(errors, topPaths, range, totalRedirects, unfixedErrors,
                            topReferrers)
    /\ pc' = "returned"
    /\ UNCHANGED <<clock, storeVars, route, shop, rangeParam, range, now, startDate,
                   qstate, issued, resultVars, themeRows, ticks, inserted>>

\* Promise.all rejects as soon as one promise has rejected: the await throws and
\* the loader returns nothing
Reject ==
    /\ route = "analytics" /\ pc = "await"
    /\ \E q \in Queries : qstate[q] = "rejected"
    /\ pc' = "failed"
    /\ UNCHANGED <<clock, storeVars, route, shop, rangeParam, range, now, startDate,
                   qstate, issued, resultVars, themeRows, response, ticks, inserted>>


-----------------------------------------------------------------------------
(* The theme loader *)

\* statusMap = new Map(themeStatuses.map(status => [status.themeId, status.isActive]))
StatusMapHas(rows, id) == \E r \in rows : r.themeId = id

\* statusMap.get(id), for a key the map has
StatusMapGet(rows, id) == (CHOOSE r \in rows : r.themeId = id).isActive

\* a merge that takes a theme without a status row to be active
IsActiveOfDefaultTrue(rows, id) ==
    IF StatusMapHas(rows, id) THEN StatusMapGet(rows, id) ELSE TRUE

\* statusMap.get(theme.id) || false: undefined and false both give false
IsActiveOf(rows, id) ==
    IF StatusMapHas(rows, id) /\ StatusMapGet(rows, id) THEN TRUE ELSE FALSE

\* data.data.themes.nodes.map(theme => ({ ...theme, isActive: ... }))
MergeThemes(nodes, rows) ==
    [i \in DOMAIN nodes |->
        [id |-> nodes[i].id, name |-> nodes[i].name, role |-> nodes[i].role,
         isActive |-> IsActiveOf(rows, nodes[i].id)]]

\* prisma.themeStatus.findMany({ where: { shopDomain: session.shop } })
ThemeStatusWhere(r, s) == r.shopDomain = s

\* admin.graphql(getThemes) and response.json(): the platform's list is in hand
FetchThemes ==
    /\ route = "index" /\ pc = "start"
    /\ pc' = "findMany"
    /\ UNCHANGED <<clock, storeVars, route, shop, rangeParam, range, now, startDate,
                   qstate, issued, resultVars, themeRows, response, ticks, inserted>>

FindThemeStatuses ==
    /\ route = "index" /\ pc = "findMany"
    /\ themeRows' = {r \in themeStatuses : ThemeStatusWhere(r, shop)}
    /\ pc' = "merge"
    /\ UNCHANGED <<clock, storeVars, route, shop, rangeParam, range, now, startDate,
                   qstate, issued, resultVars, response, ticks, inserted>>

ReturnThemes ==
    /\ route = "index" /\ pc = "merge"
    /\ response' = [kind |-> "index", shop |-> shop,
                    themes |-> MergeThemes(platformThemes, themeRows)]
    /\ pc' = "returned"
    /\ UNCHANGED <<clock, storeVars, route, shop, rangeParam, range, now, startDate,
                   qstate, issued, resultVars, themeRows, ticks, inserted>>

-----------------------------------------------------------------------------
(* The environment: rows recorded while a request is being served *)

\* a storefront 404 is logged, stamped with the current time and not yet redirected
InsertError ==
    /\ route = "analytics" /\ pc \in {"readStart", "switch", "dispatch", "await"}
    /\ inserted < MaxInserts
    /\ \E s \in Shops :
          notFoundErrors' = notFoundErrors \cup
              {ErrorRow(100 + inserted, s, "/a", NULL, clock, FALSE)}
    /\ inserted' = inserted + 1
    /\ UNCHANGED <<clock, redirects, themeStatuses, platformThemes, route, pc, shop,
                   rangeParam, range, now, startDate, qstate, issued, resultVars,
                   themeRows, response, ticks>>

\* a merchant creates a redirect rule
InsertRedirect ==
    /\ route = "analytics" /\ pc \in {"readStart", "switch", "dispatch", "await"}
    /\ inserted < MaxInserts
    /\ redirects' = redirects \cup {RedirectRow(100 + inserted, shop, clock)}
    /\ inserted' = inserted + 1
    /\ UNCHANGED <<clock, notFoundErrors, themeStatuses, platformThemes, route, pc, shop,
                   rangeParam, range, now, startDate, qstate, issued, resultVars,
                   themeRows, response, ticks>>

-----------------------------------------------------------------------------
(* Specifications *)

LoaderInit ==
    /\ pc = "start"
    /\ range = NULL
    /\ now = NoDate
    /\ startDate = NoDate
    /\ qstate = [q \in Queries |-> "unsent"]
    /\ issued = [q \in Queries |-> 0]
    /\ errors = <<>>
    /\ topPaths = <<>>
    /\ totalRedirects = 0
    /\ unfixedErrors = 0
    /\ topReferrers = <<>>
    /\ themeRows = {}
    /\ response = NoResponse
    /\ ticks = 0
    /\ inserted = 0

\* a request for /app/analytics arrives at a store of at most MaxEvents error rows
\* and MaxRedirects redirect rows
InitAnalytics ==
    /\ route = "analytics"
    /\ clock \in ClockStarts
    /\ shop \in Shops
    /\ rangeParam \in RangeParams
    /\ notFoundErrors \in {S \in SUBSET ErrorPool(clock) : Cardinality(S) <= MaxEvents}
    /\ redirects \in {S \in SUBSET RedirectPool(clock) : Cardinality(S) <= MaxRedirects}
    /\ themeStatuses = {}
    /\ platformThemes = <<>>
    /\ LoaderInit

\* a request for /app arrives
InitIndex ==
    /\ route = "index"
    /\ clock \in ClockStarts
    /\ shop \in Shops
    /\ rangeParam = NULL
    /\ notFoundErrors = {}
    /\ redirects = {}
    /\ themeStatuses \in ThemeStatusTables
    /\ platformThemes \in ThemeLists
    /\ LoaderInit

Init == InitAnalytics \/ InitIndex

\* q is the first query of the array still pending
FirstPending(q) ==
    \E i \in DOMAIN QueryOrder :
        /\ QueryOrder[i] = q
        /\ qstate[q] = "pending"
        /\ \A j \in 1..(i - 1) : qstate[QueryOrder[j]] # "pending"

\* The store does not change while the request is served, so the order in which
\* the five queries are answered does not matter: they are answered in array order.
SettleInOrder == \E q \in Queries : FirstPending(q) /\ Settle(q)

Next ==
    \/ ParseRange
    \/ ReadNow
    \/ Tick
    \/ ReadStartDate
    \/ ResolveWindow
    \/ Dispatch
    \/ SettleInOrder
    \/ Compose
    \/ FetchThemes
    \/ FindThemeStatuses
    \/ ReturnThemes

Spec == Init /\ [][Next]_vars

\* Requests served while rows are being inserted and queries may fail: the five
\* queries are answered in any order.
InitFanOut ==
    /\ route = "analytics"
    /\ clock \in ClockStarts
    /\ shop = "s1"
    /\ rangeParam \in {"day", NULL}
    /\ notFoundErrors \in
          {S \in SUBSET {e \in ErrorPool(clock) : e.id \in {1, 2, 3}} :
              Cardinality(S) <= MaxConcurrentStore}
    /\ redirects = {}
    /\ themeStatuses = {}
    /\ platformThemes = <<>>
    /\ LoaderInit

SettleAny == \E q \in Queries : Settle(q)

FailAny == \E q \in Queries : SettleFail(q)

NextFanOut ==
    \/ ParseRange
    \/ ReadNow
    \/ Tick
    \/ ReadStartDate
    \/ ResolveWindow
    \/ Dispatch
    \/ SettleAny
    \/ FailAny
    \/ Compose
    \/ Reject
    \/ InsertError
    \/ InsertRedirect

SpecFanOut == InitFanOut /\ [][NextFanOut]_vars

\* Requests arriving at every tick of two calendar years, followed up to the
\* resolved window.
CalendarFirst == Instant(2023, 0, 1, 0)
CalendarLast == Instant(2024, 11, 31, TicksPerDay - 1)

InitCalendar ==
    /\ route = "analytics"
    /\ clock \in CalendarFirst..CalendarLast
    /\ shop = "s1"
    /\ rangeParam \in RangeParams
    /\ notFoundErrors = {}
    /\ redirects = {}
    /\ themeStatuses = {}
    /\ platformThemes = <<>>
    /\ LoaderInit

NextCalendar ==
    \/ ParseRange
    \/ ReadNow
    \/ Tick
    \/ ReadStartDate
    \/ ResolveWindow

SpecCalendar == InitCalendar /\ [][NextCalendar]_vars


-----------------------------------------------------------------------------
(* Properties *)

Returned == route = "analytics" /\ pc = "returned"

ThemesReturned == route = "index" /\ pc = "returned"

Metrics == response.additionalMetrics

\* the rows of the session's shop whose timestamp lies in [startDate, now]
InWindowErrors ==
    {e \in notFoundErrors :
        e.shopDomain = shop /\ e.timestamp >= startDate /\ e.timestamp <= now}

InWindowRedirects ==
    {r \in redirects :
        r.shopDomain = shop /\ r.createdAt >= startDate /\ r.createdAt <= now}

Min(a, b) == IF a < b THEN a ELSE b

\* C1: in every returned snapshot whose window [startDate, now] is a whole, positive
\* number of days long, avgDaily = round(totalErrors / that number of days).
C1_AvgDailyUsesWindowLength ==
    (Returned /\ now > startDate /\ (now - startDate) % TicksPerDay = 0) =>
        Metrics.avgDaily =
            MathRound(Metrics.totalErrors, (now - startDate) \div TicksPerDay)

\* the number of days the spec gives each range
SpecDays(r) == IF r = "day" THEN 1 ELSE IF r = "month" THEN 30 ELSE 7

\* C2: when the clock does not advance between the two reads, the resolved window
\* [startDate, now] is exactly 1 day long for range=day, 30 days for range=month and
\* 7 days for range=week, a missing range and an unrecognized range.
C2_WindowLengthIsFixed ==
    (route = "analytics" /\ pc = "dispatch" /\ ticks = 0) =>
        now - startDate = SpecDays(rangeParam) * TicksPerDay

\* C3: in every returned snapshot unfixedErrors <= totalErrors, whatever rows were
\* inserted while the five queries were running.
C3_UnfixedAtMostTotal ==
    Returned => Metrics.unfixedErrors <= Metrics.totalErrors

\* C4: a row whose timestamp / createdAt lies outside [startDate, now] contributes to
\* no metric of the returned snapshot: every count of the snapshot is at most the
\* number of matching rows of the store that lie inside the window.
C4_NothingOutsideWindowCounts ==
    Returned =>
        /\ Metrics.totalErrors <= Cardinality(InWindowErrors)
        /\ Metrics.unfixedErrors <=
              Cardinality({e \in InWindowErrors : e.redirected = FALSE})
        /\ Metrics.totalRedirects <= Cardinality(InWindowRedirects)
        /\ \A i \in DOMAIN response.errors :
              response.errors[i]._count <=
                  Cardinality({e \in InWindowErrors :
                                  e.timestamp = response.errors[i].timestamp})
        /\ \A i \in DOMAIN response.topPaths :
              response.topPaths[i]._count <=
                  Cardinality({e \in InWindowErrors : e.path = response.topPaths[i].path})
        /\ \A i \in DOMAIN Metrics.topReferrers :
              Metrics.topReferrers[i]._count <=
                  Cardinality({e \in InWindowErrors :
                                  e.referer = Metrics.topReferrers[i].referer})

\* the startDate a request with range=week computes from the same two clock reads
WeekStartDate == WindowStart("week", now, now + ticks)

\* C5: a snapshot returned for the unsupported range "quarter" has the window bounds
\* and every metric of the snapshot that range=week yields over the same store at
\* the same instant.
C5_UnsupportedRangeSameAsWeek ==
    (Returned /\ rangeParam = "quarter") =>
        /\ startDate = WeekStartDate
        /\ response.errors = ErrorsQuery(notFoundErrors, shop, WeekStartDate, now)
        /\ response.topPaths = TopPathsQuery(notFoundErrors, shop, WeekStartDate)
        /\ \E nullsLarge \in BOOLEAN :
              Metrics.topReferrers =
                  TopReferrersQuery(notFoundErrors, shop, WeekStartDate, nullsLarge)
        /\ Metrics.totalRedirects = RedirectsQuery(redirects, shop, WeekStartDate)
        /\ Metrics.unfixedErrors = UnfixedQuery(notFoundErrors, shop, WeekStartDate)
        /\ Metrics.totalErrors =
              TotalErrors(ErrorsQuery(notFoundErrors, shop, WeekStartDate, now))
        /\ Metrics.avgDaily = AvgDaily(Metrics.totalErrors, "week")

\* the grouping keys among the rows the top-paths / top-referrers query selects
SelectedPaths ==
    {e.path : e \in {x \in notFoundErrors :
                        x.shopDomain = shop /\ x.timestamp >= startDate}}

SelectedReferers ==
    {e.referer : e \in {x \in notFoundErrors :
                           x.shopDomain = shop /\ x.timestamp >= startDate}}

\* C6: topPaths has min(5, number of distinct selected paths) entries and
\* topReferrers has min(3, number of distinct selected referers) entries, so never
\* more than 5 and 3.
C6_TopListsTruncated ==
    Returned =>
        /\ Len(response.topPaths) <= 5
        /\ Len(Metrics.topReferrers) <= 3
        /\ Len(response.topPaths) = Min(5, Cardinality(SelectedPaths))
        /\ Len(Metrics.topReferrers) = Min(3, Cardinality(SelectedReferers))

\* both lists are cut: more than 5 paths and more than 3 referers were selected
C6_Witness ==
    /\ Returned
    /\ Cardinality(SelectedPaths) > 5 /\ Len(response.topPaths) = 5
    /\ Cardinality(SelectedReferers) > 3 /\ Len(Metrics.topReferrers) = 3

\* C7: totalErrors is the sum of the counts of errorSeries, which is the number of
\* error rows of the shop with startDate <= timestamp <= now; it is 0 when
\* errorSeries is empty.
C7_TotalErrorsIsSeriesSum ==
    Returned =>
        /\ Metrics.totalErrors = SumCounts(response.errors)
        /\ Metrics.totalErrors = Cardinality(InWindowErrors)
        /\ (response.errors = <<>> => Metrics.totalErrors = 0)

\* a series of several buckets, one of them holding several rows, while the shop
\* also has rows outside the window
C7_Witness ==
    /\ Returned
    /\ Len(response.errors) >= 2
    /\ \E i \in DOMAIN response.errors : response.errors[i]._count >= 2
    /\ \E e \in notFoundErrors : e.shopDomain = shop /\ e \notin InWindowErrors

\* C8: the merged list has one entry per platform theme, in the same order; an
\* entry's isActive is that of the shop's status row for the theme, and false when
\* the shop has no such row.
C8_ThemeMerge ==
    ThemesReturned =>
        /\ Len(response.themes) = Len(platformThemes)
        /\ \A i \in DOMAIN platformThemes :
              /\ response.themes[i].id = platformThemes[i].id
              /\ response.themes[i].name = platformThemes[i].name
              /\ response.themes[i].role = platformThemes[i].role
              /\ \A r \in themeStatuses :
                    (r.shopDomain = shop /\ r.themeId = platformThemes[i].id) =>
                        response.themes[i].isActive = r.isActive
              /\ (~ \E r \in themeStatuses :
                        r.shopDomain = shop /\ r.themeId = platformThemes[i].id) =>
                    response.themes[i].isActive = FALSE

\* two themes, the first without a status row of the shop (though another shop has
\* an active row for it), the second with an active row
C8_Witness ==
    /\ ThemesReturned
    /\ Len(platformThemes) = 2
    /\ ~ \E r \in themeStatuses :
            r.shopDomain = shop /\ r.themeId = platformThemes[1].id
    /\ \E r \in themeStatuses :
            r.shopDomain # shop /\ r.themeId = platformThemes[1].id /\ r.isActive
    /\ \E r \in themeStatuses :
            r.shopDomain = shop /\ r.themeId = platformThemes[2].id /\ r.isActive
    /\ response.themes[2].isActive

\* C9: a snapshot is returned only when all five queries have fulfilled; once a
\* query has failed no snapshot exists, whole or partial; no query is sent twice.
C9_AllOrNothing ==
    /\ (pc = "returned" => \A q \in Queries : qstate[q] = "fulfilled")
    /\ (response # NoResponse => pc = "returned")
    /\ ((\E q \in Queries : qstate[q] = "rejected") =>
            (pc # "returned" /\ response = NoResponse))
    /\ \A q \in Queries : issued[q] <= 1

\* the request failed after four queries had fulfilled and one had failed
C9_Witness ==
    /\ pc = "failed"
    /\ Cardinality({q \in Queries : qstate[q] = "fulfilled"}) = 4
    /\ Cardinality({q \in Queries : qstate[q] = "rejected"}) = 1
    /\ response = NoResponse

OwnErrors == {e \in notFoundErrors : e.shopDomain = shop}

OwnRedirects == {r \in redirects : r.shopDomain = shop}

OwnThemeStatuses == {r \in themeStatuses : r.shopDomain = shop}

\* C10: the returned snapshot, and the returned theme list, are what the loader
\* yields over the store with every row of every other shop removed.
C10_OtherShopsDoNotMatter ==
    /\ Returned =>
          /\ response.errors = ErrorsQuery(OwnErrors, shop, startDate, now)
          /\ response.topPaths = TopPathsQuery(OwnErrors, shop, startDate)
          /\ \E nullsLarge \in BOOLEAN :
                Metrics.topReferrers =
                    TopReferrersQuery(OwnErrors, shop, startDate, nullsLarge)
          /\ Metrics.totalRedirects = RedirectsQuery(OwnRedirects, shop, startDate)
          /\ Metrics.unfixedErrors = UnfixedQuery(OwnErrors, shop, startDate)
          /\ Metrics.totalErrors =
                TotalErrors(ErrorsQuery(OwnErrors, shop, startDate, now))
          /\ Metrics.avgDaily = AvgDaily(Metrics.totalErrors, response.range)
    /\ ThemesReturned =>
          response.themes = MergeThemes(platformThemes, OwnThemeStatuses)

\* the store holds rows of another shop inside the window, unredirected, next to
\* rows of the session's shop that the snapshot counts
C10_Witness ==
    /\ Returned
    /\ Metrics.totalErrors > 0
    /\ \E e \in notFoundErrors :
          /\ e.shopDomain # shop /\ e.redirected = FALSE
          /\ e.timestamp >= startDate /\ e.timestamp <= now
    /\ \E r \in redirects : r.shopDomain # shop /\ r.createdAt >= startDate


\* the number of rows of the session's shop inside the window that have path p
InWindowPathCount(p) == Cardinality({e \in InWindowErrors : e.path = p})

\* the paths listed in the returned topPaths
ListedPaths == {response.topPaths[i].path : i \in DOMAIN response.topPaths}

\* C11: topPaths holds the most common paths: when no row of the store is stamped
\* later than now, no path of the shop in the window that topPaths leaves out has
\* strictly more rows than a path topPaths lists.
C11_TopPathsAreMostCommon ==
    (Returned /\ \A e \in notFoundErrors : e.timestamp <= now) =>
        \A e \in InWindowErrors :
            e.path \notin ListedPaths =>
                \A i \in DOMAIN response.topPaths :
                    InWindowPathCount(e.path) <= response.topPaths[i]._count


InWindowPaths == {e.path : e \in InWindowErrors}

InWindowReferers == {e.referer : e \in InWindowErrors}

InWindowRefererCount(r) == Cardinality({e \in InWindowErrors : e.referer = r})

\* list holds the n first keys of `keys` in descending rank, each with its count
IsTopByKey(list, n, keys, rank(_), key(_), count(_)) ==
    /\ Len(list) = Min(n, Cardinality(keys))
    /\ \A i \in DOMAIN list :
          /\ key(list[i]) \in keys
          /\ list[i]._count = count(key(list[i]))
    /\ \A i, j \in DOMAIN list : i < j => rank(key(list[i])) > rank(key(list[j]))
    /\ \A k \in keys :
          (\A i \in DOMAIN list : key(list[i]) # k) =>
              \A i \in DOMAIN list : rank(k) < rank(key(list[i]))

PathOf(g) == g.path

RefererOf(g) == g.referer

\* C12: topPaths is the first 5 groups, and topReferrers the first 3, of the shop's
\* rows inside [startDate, now] in descending order of the key, each with the number
\* of such rows that have the key.
C12_TopListsAreFirstByKey ==
    Returned =>
        /\ IsTopByKey(response.topPaths, 5, InWindowPaths, PathRank, PathOf,
                      InWindowPathCount)
        /\ \E nullsLarge \in BOOLEAN :
              LET rank(r) == RefererRank(r, nullsLarge)
              IN  IsTopByKey(Metrics.topReferrers, 3, InWindowReferers, rank,
                             RefererOf, InWindowRefererCount)

\* C12 for the snapshots over stores without a row stamped later than now
C12_WithoutLaterRows ==
    (\A e \in notFoundErrors : e.timestamp <= now) => C12_TopListsAreFirstByKey


InWindowTimestamps == {e.timestamp : e \in InWindowErrors}

\* C13: errorSeries has one entry per distinct timestamp among the shop's rows with
\* startDate <= timestamp <= now, each counting the rows at that timestamp (at least
\* one), in strictly ascending order of timestamp.
C13_ErrorSeriesBuckets ==
    Returned =>
        /\ Len(response.errors) = Cardinality(InWindowTimestamps)
        /\ \A i \in DOMAIN response.errors :
              /\ response.errors[i].timestamp \in InWindowTimestamps
              /\ response.errors[i]._count =
                    Cardinality({e \in InWindowErrors :
                                    e.timestamp = response.errors[i].timestamp})
              /\ response.errors[i]._count >= 1
        /\ \A i, j \in DOMAIN response.errors :
              i < j => response.errors[i].timestamp < response.errors[j].timestamp

\* a series of three buckets or more, one of them of several rows, over a store that
\* also holds rows of the shop older than startDate and rows stamped later than now
C13_Witness ==
    /\ Returned
    /\ Len(response.errors) >= 3
    /\ \E i \in DOMAIN response.errors : response.errors[i]._count >= 2
    /\ \E e \in notFoundErrors : e.shopDomain = shop /\ e.timestamp < startDate
    /\ \E e \in notFoundErrors : e.shopDomain = shop /\ e.timestamp > now

\* C14: the startDate the loader resolves is strictly earlier than now, for every
\* range, every instant and every advance of the clock between the two reads.
C14_StartBeforeNow ==
    (route = "analytics" /\ pc = "dispatch") => startDate < now

\* C14 for the requests whose two clock reads see the same instant
C14_StartBeforeNowSameInstant ==
    (route = "analytics" /\ pc = "dispatch" /\ ticks = 0) => startDate < now

=============================================================================
